---- MODULE Spec2Model ----
(***************************************************************************)
(* Weather_Forecasting_Analysis.py: one Streamlit script.  Every rerun     *)
(* executes the script top to bottom: sidebar selection, filter, KPI,      *)
(* trend direction, global choropleth, animated choropleth, anomaly        *)
(* detection, Prophet forecast, extreme events.  An exception raised by    *)
(* any statement ends the run (the script has no try/except).              *)
(*                                                                         *)
(* Temperatures are exact rationals [n, d] (d > 0, lowest terms); NaN is   *)
(* the pandas/numpy not-a-number, every comparison with it is FALSE.       *)
(***************************************************************************)
EXTENDS Integers, Sequences, FiniteSets, TLC

VARIABLES
    weather,            \* module-level table `weather`: [rows, year]
    cached,             \* value memoized by @st.cache_data load_weather()
    selected_continent, selected_city, unit,
    pc,                 \* the section the run executes next
    raisedAt,           \* the section whose statement raised, or "none"
    filtered,           \* rows of the selected city, sorted by date, with temperature
    kpi,                \* the three st.metric values
    trend_direction,
    country_avg, year_avg,
    monthly, rolling, deviation, threshold, anomalies,
    forecast,
    heat_threshold, cold_threshold, heatwave_days, coldwave_days,
    runs,               \* number of script runs started
    prev                \* selection and outputs of the previous run

vars == << weather, cached, selected_continent, selected_city, unit, pc, raisedAt,
           filtered, kpi, trend_direction, country_avg, year_avg,
           monthly, rolling, deviation, threshold, anomalies, forecast,
           heat_threshold, cold_threshold, heatwave_days, coldwave_days,
           runs, prev >>

-----------------------------------------------------------------------------
(* Bounds of the model *)

MaxRows == 2        \* rows of the daily-weather table in Spec
MaxRuns == 2        \* script runs per behaviour
MaxMonths == 13     \* length of the one-city series in SpecDet
FreeTail == 4       \* trailing months of that series that vary freely

(* Program constants *)

Window == 12        \* rolling(12)
HeatPct == 95       \* np.percentile(..., 95)
ColdPct == 5        \* np.percentile(..., 5)

Celsius == "Celsius (°C)"
Fahrenheit == "Fahrenheit (°F)"
Units == {Celsius, Fahrenheit}

(* NaN: the float not-a-number, kept as the quotient 0/0 *)
NaN == [n |-> 0, d |-> 0]
None == "none"

(* a script variable before its assignment, and after it *)
Unbound == << >>
Bound(v) == << v >>

-----------------------------------------------------------------------------
(* Exact arithmetic standing for the float arithmetic of pandas/numpy *)

RECURSIVE GCD(_, _)
GCD(a, b) == IF b = 0 THEN a ELSE GCD(b, a % b)

Abs(i) == IF i < 0 THEN -i ELSE i

Rat(n, d) ==
    LET s == IF d < 0 THEN -1 ELSE 1
        g == GCD(Abs(n), Abs(d))
    IN  [n |-> (s * n) \div g, d |-> (s * d) \div g]

R(i) == [n |-> i, d |-> 1]

RAdd(a, b) ==
    LET l == (a.d * b.d) \div GCD(a.d, b.d)
    IN  Rat(a.n * (l \div a.d) + b.n * (l \div b.d), l)

RNeg(a) == [n |-> -a.n, d |-> a.d]
RSub(a, b) == RAdd(a, RNeg(b))
RMul(a, b) ==
    LET g1 == GCD(Abs(a.n), b.d)
        g2 == GCD(Abs(b.n), a.d)
        h1 == IF g1 = 0 THEN 1 ELSE g1
        h2 == IF g2 = 0 THEN 1 ELSE g2
    IN  Rat((a.n \div h1) * (b.n \div h2), (a.d \div h2) * (b.d \div h1))
RDivInt(a, k) == RMul(a, [n |-> 1, d |-> k])
RLt(a, b) ==
    LET l == (a.d * b.d) \div GCD(a.d, b.d)
    IN  a.n * (l \div a.d) < b.n * (l \div b.d)
RGt(a, b) == RLt(b, a)

RECURSIVE RSum(_)
RSum(s) == IF s = << >> THEN R(0) ELSE RAdd(s[1], RSum(Tail(s)))

(* Series.mean(): NaN for an empty series *)
Mean(s) == IF s = << >> THEN NaN ELSE RDivInt(RSum(s), Len(s))

RECURSIVE RMaxOf(_)
RMaxOf(s) ==
    IF Len(s) = 1 THEN s[1]
    ELSE LET m == RMaxOf(Tail(s)) IN IF RGt(s[1], m) THEN s[1] ELSE m

RECURSIVE RMinOf(_)
RMinOf(s) ==
    IF Len(s) = 1 THEN s[1]
    ELSE LET m == RMinOf(Tail(s)) IN IF RLt(s[1], m) THEN s[1] ELSE m

(* Series.max() / Series.min(): NaN for an empty series *)
Max(s) == IF s = << >> THEN NaN ELSE RMaxOf(s)
Min(s) == IF s = << >> THEN NaN ELSE RMinOf(s)

(* round(x, 2): nearest hundredth, ties to even; round(nan, 2) is nan *)
Round2(x) ==
    IF x = NaN THEN NaN
    ELSE LET num == x.n * 100
             q   == num \div x.d
             r2  == 2 * (num - q * x.d)
             up  == r2 > x.d \/ (r2 = x.d /\ q % 2 = 1)
         IN  Rat(IF up THEN q + 1 ELSE q, 100)

-----------------------------------------------------------------------------
(* Data: the two cached tables *)

Date(y, m, d) == [y |-> y, m |-> m, d |-> d]
DateLt(a, b) ==
    \/ a.y < b.y
    \/ a.y = b.y /\ a.m < b.m
    \/ a.y = b.y /\ a.m = b.m /\ a.d < b.d

(* load_geo(): city_name, iso3, continent of every city.  City "B" is   *)
(* listed here whether or not the weather table has rows for it.        *)
geo_df == << [city_name |-> "A", iso3 |-> "XA", continent |-> "Asia"],
             [city_name |-> "B", iso3 |-> "XB", continent |-> "Europe"] >>

Cities == {geo_df[i].city_name : i \in DOMAIN geo_df}
GeoRow(city) == CHOOSE i \in DOMAIN geo_df : geo_df[i].city_name = city
IsoOfCity(city) == geo_df[GeoRow(city)].iso3

(* sidebar: continents, and the cities of the selected continent *)
continents == {geo_df[i].continent : i \in DOMAIN geo_df}
cities_list(continent) ==
    {geo_df[i].city_name : i \in {j \in DOMAIN geo_df : geo_df[j].continent = continent}}

(* Input sets of the daily-weather table *)
Dates == {Date(2020, 1, 1), Date(2020, 1, 2), Date(2021, 2, 1)}
TempsC == {R(0), R(3)}
Rows == [date : Dates, avg_temp_c : TempsC, city_name : Cities]

SeqsOfLen(S, lo, hi) == UNION {[1..n -> S] : n \in lo..hi}

(* load_weather(): the cleaned table; no "year" column yet *)
Table(rows) == [rows |-> rows, year |-> Unbound]

-----------------------------------------------------------------------------
(* FILTER DATA *)

ToTemperature(c, u) ==
    IF u = Fahrenheit THEN RAdd(RDivInt(RMul(c, R(9)), 5), R(32)) ELSE c

RECURSIVE InsertByDate(_, _)
InsertByDate(sorted, row) ==
    IF sorted = << >> THEN << row >>
    ELSE IF DateLt(row.date, sorted[1].date)
         THEN << row >> \o sorted
         ELSE << sorted[1] >> \o InsertByDate(Tail(sorted), row)

(* sort_values("date"): ascending by date.  The order pandas gives rows   *)
(* of equal date is fixed for a given table; here it is the table order. *)
RECURSIVE SortByDate(_)
SortByDate(rows) ==
    IF rows = << >> THEN << >>
    ELSE InsertByDate(SortByDate(SubSeq(rows, 1, Len(rows) - 1)), rows[Len(rows)])

Filter(w, city, u) ==
    LET mine == SelectSeq(w.rows, LAMBDA r : r.city_name = city)
        srt  == SortByDate(mine)
    IN  [i \in DOMAIN srt |->
            [date |-> srt[i].date, avg_temp_c |-> srt[i].avg_temp_c,
             temperature |-> ToTemperature(srt[i].avg_temp_c, u)]]

Temperatures(f) == [i \in DOMAIN f |-> f[i].temperature]

-----------------------------------------------------------------------------
(* KPI SECTION and DAILY TREND *)

KPI(f) ==
    [mean |-> Round2(Mean(Temperatures(f))),
     max  |-> Round2(Max(Temperatures(f))),
     min  |-> Round2(Min(Temperatures(f)))]

(* the comparison written >= : a tie would read "increasing" *)
TrendDirectionGe(f) ==
    IF ~RLt(f[Len(f)].temperature, f[1].temperature) THEN "increasing" ELSE "decreasing"

(* iloc[-1] / iloc[0] raise IndexError on an empty series *)
TrendRaises(f) == Len(f) = 0

(* line 185 *)
TrendDirectionOf(f) ==
    IF RGt(f[Len(f)].temperature, f[1].temperature) THEN "increasing" ELSE "decreasing"

-----------------------------------------------------------------------------
(* GLOBAL CHOROPLETH and ANIMATED MAP *)

RowsOfIso(w, iso) == SelectSeq(w.rows, LAMBDA r : IsoOfCity(r.city_name) = iso)
AvgC(rows) == Mean([i \in DOMAIN rows |-> rows[i].avg_temp_c])

CountryAvg(w, u) ==
    {[iso3 |-> iso, temperature |-> ToTemperature(AvgC(RowsOfIso(w, iso)), u)] :
        iso \in {IsoOfCity(w.rows[i].city_name) : i \in DOMAIN w.rows}}

(* the year written into the temperature column instead of a new column *)
AddYearClobber(w) ==
    [w EXCEPT !.rows = [i \in DOMAIN w.rows |->
                           [w.rows[i] EXCEPT !.avg_temp_c = R(w.rows[i].date.y)]],
              !.year = Bound([i \in DOMAIN w.rows |-> w.rows[i].date.y])]

(* weather["year"] = weather["date"].dt.year : a new column of the table *)
AddYear(w) == [w EXCEPT !.year = Bound([i \in DOMAIN w.rows |-> w.rows[i].date.y])]

YearAvg(w) ==
    {[year |-> k[1], iso3 |-> k[2],
      avg_temp_c |-> AvgC(SelectSeq(RowsOfIso(w, k[2]), LAMBDA r : r.date.y = k[1]))] :
        k \in {<< w.year[1][i], IsoOfCity(w.rows[i].city_name) >> : i \in DOMAIN w.rows}}

-----------------------------------------------------------------------------
(* ANOMALY DETECTION *)

PeriodLt(a, b) == a.y < b.y \/ (a.y = b.y /\ a.m < b.m)

RECURSIVE SortedPeriods(_)
SortedPeriods(S) ==
    IF S = {} THEN << >>
    ELSE LET first == CHOOSE p \in S : \A q \in S \ {p} : PeriodLt(p, q)
         IN  << first >> \o SortedPeriods(S \ {first})

(* dt.to_period("M"), groupby("year_month")["temperature"].mean() *)
Monthly(f) ==
    LET period(i) == [y |-> f[i].date.y, m |-> f[i].date.m]
        ps == SortedPeriods({period(i) : i \in DOMAIN f})
        inP(p) == SelectSeq(f, LAMBDA r : r.date.y = p.y /\ r.date.m = p.m)
    IN  [k \in DOMAIN ps |->
            [year_month |-> ps[k], temperature |-> Mean(Temperatures(inP(ps[k])))]]

(* rolling(12, min_periods=1): a mean over whatever the window holds *)
RollingMinPeriods1(vals) ==
    [i \in DOMAIN vals |->
        Mean(SubSeq(vals, IF i < Window THEN 1 ELSE i - Window + 1, i))]

(* rolling(12, closed="left"): the window ends before the current point *)
RollingPrevious(vals) ==
    [i \in DOMAIN vals |->
        IF i <= Window THEN NaN ELSE Mean(SubSeq(vals, i - Window, i - 1))]

(* rolling(12).mean(): trailing window, NaN until the window is full *)
Rolling(vals) ==
    [i \in DOMAIN vals |->
        IF i < Window THEN NaN ELSE Mean(SubSeq(vals, i - Window + 1, i))]

(* arithmetic with NaN yields NaN *)
Deviation(vals, roll) ==
    [i \in DOMAIN vals |-> IF roll[i] = NaN THEN NaN ELSE RSub(vals[i], roll[i])]

Defined(dev) == SelectSeq(dev, LAMBDA x : x # NaN)

(* the population variance (ddof = 0): 0 for a single value *)
VariancePopulation(dev) ==
    LET ds == SelectSeq(dev, LAMBDA x : x # NaN)
        n  == Len(ds)
        mu == Mean(ds)
        sq == [i \in DOMAIN ds |-> RMul(RSub(ds[i], mu), RSub(ds[i], mu))]
    IN  IF n < 1 THEN NaN ELSE RDivInt(RSum(sq), n)

(* Series.std(): NaN values skipped, ddof = 1, NaN with fewer than 2 values *)
Variance(dev) ==
    LET ds == Defined(dev)
        n  == Len(ds)
        mu == Mean(ds)
        sq == [i \in DOMAIN ds |-> RMul(RSub(ds[i], mu), RSub(ds[i], mu))]
    IN  IF n < 2 THEN NaN ELSE RDivInt(RSum(sq), n - 1)

(* threshold = std * 2, kept by its square 4 * variance (std >= 0) *)
Threshold(dev) ==
    LET v == Variance(dev)
    IN  IF v = NaN THEN NaN ELSE [sq |-> RMul(R(4), v)]

(* np.abs(deviation) > threshold; FALSE when either side is NaN *)
ExceedsThreshold(d, th) ==
    /\ d # NaN
    /\ th # NaN
    /\ RGt(RMul(d, d), th.sq)

Anomalies(dev, th) == {i \in DOMAIN dev : ExceedsThreshold(dev[i], th)}

-----------------------------------------------------------------------------
(* AI FORECASTING *)

(* Prophet.fit raises ValueError on a dataframe of fewer than 2 rows; the *)
(* script calls it with no guard and no try/except                        *)
ProphetRaises(df) == Len(df) < 2

-----------------------------------------------------------------------------
(* EXTREME EVENTS TRACKER *)

RECURSIVE InsertAsc(_, _)
InsertAsc(sorted, x) ==
    IF sorted = << >> THEN << x >>
    ELSE IF RLt(x, sorted[1]) THEN << x >> \o sorted
         ELSE << sorted[1] >> \o InsertAsc(Tail(sorted), x)

RECURSIVE SortAsc(_)
SortAsc(s) == IF s = << >> THEN << >> ELSE InsertAsc(SortAsc(Tail(s)), s[1])

(* np.percentile(a, q): linear interpolation between order statistics *)
Percentile(a, q) ==
    LET s    == SortAsc(a)
        n    == Len(s)
        num  == (n - 1) * q
        lo   == num \div 100
        frac == Rat(num - lo * 100, 100)
    IN  IF n = 0 THEN NaN
        ELSE IF lo + 1 >= n THEN s[n]
        ELSE RAdd(s[lo + 1], RMul(frac, RSub(s[lo + 2], s[lo + 1])))

(* the comparison written >= *)
IsHeatwaveInclusive(t, th) == th # NaN /\ ~RLt(t, th)

IsHeatwave(t, th) == th # NaN /\ RGt(t, th)
IsColdwave(t, th) == th # NaN /\ RLt(t, th)

HeatwaveDays(f, th) == {i \in DOMAIN f : IsHeatwave(f[i].temperature, th)}
ColdwaveDays(f, th) == {i \in DOMAIN f : IsColdwave(f[i].temperature, th)}

-----------------------------------------------------------------------------
(* The script as a state machine *)

Stages == << "kpi", "trend", "choropleth", "animated", "anomaly", "forecast", "extreme" >>
StageNo(st) == CHOOSE i \in DOMAIN Stages : Stages[i] = st

(* the section that runs after section st has completed *)
After(st) == IF StageNo(st) = Len(Stages) THEN "done" ELSE Stages[StageNo(st) + 1]

(* a handler around section st that swallows the exception and goes on *)
AfterRaiseCaught(st) == After(st)

(* an exception in section st is caught nowhere: the run ends there *)
AfterRaise(st) == "crashed"

Ended == pc \in {"done", "crashed"}

Selection == [continent |-> selected_continent, city |-> selected_city, unit |-> unit]

Outputs ==
    [pc |-> pc, raisedAt |-> raisedAt, kpi |-> kpi, trend_direction |-> trend_direction,
     country_avg |-> country_avg, year_avg |-> year_avg, monthly |-> monthly,
     rolling |-> rolling, deviation |-> deviation, threshold |-> threshold,
     anomalies |-> anomalies, forecast |-> forecast,
     heat_threshold |-> heat_threshold, cold_threshold |-> cold_threshold,
     heatwave_days |-> heatwave_days, coldwave_days |-> coldwave_days]

(* weather = load_weather(): st.cache_data hands out a copy of the memoized  *)
(* table; byRef is the other way a memoizing decorator can hand it out, the  *)
(* object the previous run used                                              *)
LoadWeather(memo, old, byRef) == IF byRef THEN old ELSE memo

Init ==
    /\ cached \in {Table(rows) : rows \in SeqsOfLen(Rows, 0, MaxRows)}
    /\ weather = cached
    /\ selected_continent = None
    /\ selected_city = None
    /\ unit = None
    /\ pc = "start"
    /\ raisedAt = None
    /\ filtered = << >>
    /\ kpi = Unbound
    /\ trend_direction = Unbound
    /\ country_avg = Unbound
    /\ year_avg = Unbound
    /\ monthly = Unbound
    /\ rolling = Unbound
    /\ deviation = Unbound
    /\ threshold = Unbound
    /\ anomalies = Unbound
    /\ forecast = Unbound
    /\ heat_threshold = Unbound
    /\ cold_threshold = Unbound
    /\ heatwave_days = Unbound
    /\ coldwave_days = Unbound
    /\ runs = 0
    /\ prev = Unbound

(* lines 123-150: a (re)run starts: load, sidebar widgets, filter, unit *)
StartRun ==
    /\ pc = "start" \/ Ended
    /\ runs < MaxRuns
    /\ \E co \in continents, u \in Units, byRef \in BOOLEAN :
       \E ci \in cities_list(co) :
          /\ selected_continent' = co
          /\ selected_city' = ci
          /\ unit' = u
          /\ weather' = LoadWeather(cached, weather, byRef)
          /\ filtered' = Filter(weather', ci, u)
    /\ prev' = IF pc = "start" THEN prev ELSE Bound([sel |-> Selection, out |-> Outputs])
    /\ runs' = runs + 1
    /\ pc' = Stages[1]
    /\ raisedAt' = None
    /\ kpi' = Unbound
    /\ trend_direction' = Unbound
    /\ country_avg' = Unbound
    /\ year_avg' = Unbound
    /\ monthly' = Unbound
    /\ rolling' = Unbound
    /\ deviation' = Unbound
    /\ threshold' = Unbound
    /\ anomalies' = Unbound
    /\ forecast' = Unbound
    /\ heat_threshold' = Unbound
    /\ cold_threshold' = Unbound
    /\ heatwave_days' = Unbound
    /\ coldwave_days' = Unbound
    /\ UNCHANGED cached

(* lines 156-160 *)
KpiSection ==
    /\ pc = "kpi"
    /\ kpi' = Bound(KPI(filtered))
    /\ pc' = After("kpi")
    /\ UNCHANGED << weather, cached, selected_continent, selected_city, unit, raisedAt,
                    filtered, trend_direction, country_avg, year_avg, monthly, rolling,
                    deviation, threshold, anomalies, forecast, heat_threshold,
                    cold_threshold, heatwave_days, coldwave_days, runs, prev >>

(* lines 170-191 *)
DailyTrend ==
    /\ pc = "trend"
    /\ IF TrendRaises(filtered)
       THEN /\ pc' = AfterRaise("trend")
            /\ raisedAt' = "trend"
            /\ UNCHANGED trend_direction
       ELSE /\ trend_direction' = Bound(TrendDirectionOf(filtered))
            /\ pc' = After("trend")
            /\ UNCHANGED raisedAt
    /\ UNCHANGED << weather, cached, selected_continent, selected_city, unit,
                    filtered, kpi, country_avg, year_avg, monthly, rolling,
                    deviation, threshold, anomalies, forecast, heat_threshold,
                    cold_threshold, heatwave_days, coldwave_days, runs, prev >>

(* lines 197-231 *)
GlobalChoropleth ==
    /\ pc = "choropleth"
    /\ country_avg' = Bound(CountryAvg(weather, unit))
    /\ pc' = After("choropleth")
    /\ UNCHANGED << weather, cached, selected_continent, selected_city, unit, raisedAt,
                    filtered, kpi, trend_direction, year_avg, monthly, rolling,
                    deviation, threshold, anomalies, forecast, heat_threshold,
                    cold_threshold, heatwave_days, coldwave_days, runs, prev >>

(* lines 237-269 *)
AnimatedMap ==
    /\ pc = "animated"
    /\ weather' = AddYear(weather)
    /\ year_avg' = Bound(YearAvg(weather'))
    /\ pc' = After("animated")
    /\ UNCHANGED << cached, selected_continent, selected_city, unit, raisedAt,
                    filtered, kpi, trend_direction, country_avg, monthly, rolling,
                    deviation, threshold, anomalies, forecast, heat_threshold,
                    cold_threshold, heatwave_days, coldwave_days, runs, prev >>

(* lines 275-315 *)
AnomalyDetection ==
    /\ pc = "anomaly"
    /\ LET mo == Monthly(filtered)
           ro == Rolling(Temperatures(mo))
           de == Deviation(Temperatures(mo), ro)
           th == Threshold(de)
       IN  /\ monthly' = Bound(mo)
           /\ rolling' = Bound(ro)
           /\ deviation' = Bound(de)
           /\ threshold' = Bound(th)
           /\ anomalies' = Bound(Anomalies(de, th))
    /\ pc' = After("anomaly")
    /\ UNCHANGED << weather, cached, selected_continent, selected_city, unit, raisedAt,
                    filtered, kpi, trend_direction, country_avg, year_avg, forecast,
                    heat_threshold, cold_threshold, heatwave_days, coldwave_days,
                    runs, prev >>

(* lines 321-351 *)
Forecasting ==
    /\ pc = "forecast"
    /\ IF ProphetRaises(filtered)
       THEN /\ pc' = AfterRaise("forecast")
            /\ raisedAt' = "forecast"
            /\ UNCHANGED forecast
       ELSE /\ forecast' = Bound("available")
            /\ pc' = After("forecast")
            /\ UNCHANGED raisedAt
    /\ UNCHANGED << weather, cached, selected_continent, selected_city, unit,
                    filtered, kpi, trend_direction, country_avg, year_avg, monthly,
                    rolling, deviation, threshold, anomalies, heat_threshold,
                    cold_threshold, heatwave_days, coldwave_days, runs, prev >>

(* lines 357-376 *)
ExtremeEvents ==
    /\ pc = "extreme"
    /\ LET ht == Percentile(Temperatures(filtered), HeatPct)
           ct == Percentile(Temperatures(filtered), ColdPct)
       IN  /\ heat_threshold' = Bound(ht)
           /\ cold_threshold' = Bound(ct)
           /\ heatwave_days' = Bound(HeatwaveDays(filtered, ht))
           /\ coldwave_days' = Bound(ColdwaveDays(filtered, ct))
    /\ pc' = After("extreme")
    /\ UNCHANGED << weather, cached, selected_continent, selected_city, unit, raisedAt,
                    filtered, kpi, trend_direction, country_avg, year_avg, monthly,
                    rolling, deviation, threshold, anomalies, forecast, runs, prev >>

Next ==
    \/ StartRun
    \/ KpiSection
    \/ DailyTrend
    \/ GlobalChoropleth
    \/ AnimatedMap
    \/ AnomalyDetection
    \/ Forecasting
    \/ ExtremeEvents

Spec == Init /\ [][Next]_vars

-----------------------------------------------------------------------------
(* The detector and the classifier on longer series: one city with one    *)
(* record per month, the run standing before ANOMALY DETECTION            *)

MonthVals == {R(10), R(100)}
MonthDate(k) == Date(2020 + ((k - 1) \div 12), ((k - 1) % 12) + 1, 1)
MonthRows(vals) ==
    [k \in DOMAIN vals |-> [date |-> MonthDate(k), avg_temp_c |-> vals[k], city_name |-> "A"]]

(* n months: a constant stretch of base followed by the months of tail *)
SeriesOf(base, n, tail) ==
    [k \in 1..n |-> IF k <= n - Len(tail) THEN base ELSE tail[k - (n - Len(tail))]]

DetSeries ==
    UNION {{SeriesOf(base, n, tail) : base \in MonthVals,
                                      tail \in SeqsOfLen(MonthVals, 0, IF n < FreeTail THEN n ELSE FreeTail)} :
           n \in 1..MaxMonths}

InitDet ==
    /\ cached \in {Table(MonthRows(vals)) : vals \in DetSeries}
    /\ weather = AddYear(cached)
    /\ selected_continent = "Asia"
    /\ selected_city = "A"
    /\ unit \in Units
    /\ filtered = Filter(cached, selected_city, unit)
    /\ kpi = Bound(KPI(filtered))
    /\ trend_direction = Bound(TrendDirectionOf(filtered))
    /\ country_avg = Bound(CountryAvg(cached, unit))
    /\ year_avg = Bound(YearAvg(weather))
    /\ pc = "anomaly"
    /\ raisedAt = None
    /\ monthly = Unbound
    /\ rolling = Unbound
    /\ deviation = Unbound
    /\ threshold = Unbound
    /\ anomalies = Unbound
    /\ forecast = Unbound
    /\ heat_threshold = Unbound
    /\ cold_threshold = Unbound
    /\ heatwave_days = Unbound
    /\ coldwave_days = Unbound
    /\ runs = 1
    /\ prev = Unbound

NextDet ==
    \/ AnomalyDetection
    \/ Forecasting
    \/ ExtremeEvents

SpecDet == InitDet /\ [][NextDet]_vars

-----------------------------------------------------------------------------
(* Properties *)

RanTo(st) == pc \in {"done", "crashed"} \/ (pc # "start" /\ StageNo(pc) > StageNo(st))

AllNaN(s) == \A i \in DOMAIN s : s[i] = NaN

(* C1: a run for a selected city with zero daily records never ends in a   *)
(* failure state; it completes with no mean/max/min, zero anomalies, zero  *)
(* heatwave days and zero coldwave days.                                   *)
C1_EmptyCityDegrades ==
    (runs > 0 /\ Len(filtered) = 0) =>
        /\ pc # "crashed"
        /\ pc = "done" =>
            /\ kpi = Bound([mean |-> NaN, max |-> NaN, min |-> NaN])
            /\ anomalies = Bound({})
            /\ heatwave_days = Bound({})
            /\ coldwave_days = Bound({})

(* C2: whenever the forecast step raises, the failure is caught at the     *)
(* forecast boundary: the run is in a non-fatal "forecast unavailable"     *)
(* state and not crashed; the forecast is never invoked on an empty series.*)
C2_ForecastFailureCaught ==
    /\ raisedAt = "forecast" => (pc # "crashed" /\ forecast = Bound("unavailable"))
    /\ pc = "forecast" => Len(filtered) > 0

(* The 13-point monthly series of C3: twelve times 10.0, then 100.0 *)
C3Input ==
    /\ unit = Celsius
    /\ monthly # Unbound
    /\ Len(monthly[1]) = 13
    /\ \A k \in 1..12 : monthly[1][k].temperature = R(10)
    /\ monthly[1][13].temperature = R(100)

(* C3 as claimed: on that series the 13th point has rolling mean 17.5 and  *)
(* deviation 82.5, there is one deviation sample, the standard deviation   *)
(* and the threshold are 0, and the 13th point is flagged.                 *)
C3_SingleSampleFlagged ==
    C3Input =>
        /\ rolling[1][13] = Rat(35, 2)
        /\ deviation[1][13] = Rat(165, 2)
        /\ Len(Defined(deviation[1])) = 1
        /\ threshold[1] = [sq |-> R(0)]
        /\ 13 \in anomalies[1]

(* C3 amended: on that series the 13th point has rolling mean 17.5 and     *)
(* deviation 82.5; there are two deviation samples (0 at the 12th point,   *)
(* 82.5 at the 13th), the squared threshold is 4 * 82.5^2 / 2 = 13612.5    *)
(* (threshold about 116.67), and no point is flagged.                      *)
C3_TwoSamplesNotFlagged ==
    C3Input =>
        /\ rolling[1][13] = Rat(35, 2)
        /\ deviation[1][13] = Rat(165, 2)
        /\ Defined(deviation[1]) = << R(0), Rat(165, 2) >>
        /\ threshold[1] = [sq |-> Rat(27225, 2)]
        /\ anomalies[1] = {}

C3_Witness == C3Input /\ pc = "forecast"

(* C4: a run for a city with exactly one daily record of temperature v     *)
(* yields mean = max = min = v, zero anomalies, zero heatwave days and     *)
(* zero coldwave days.                                                     *)
C4_SingleRecord ==
    (Ended /\ Len(filtered) = 1) =>
        /\ kpi = Bound([mean |-> filtered[1].temperature,
                        max  |-> filtered[1].temperature,
                        min  |-> filtered[1].temperature])
        /\ anomalies = Bound({})
        /\ heatwave_days = Bound({})
        /\ coldwave_days = Bound({})

(* C5: for a series of fewer than 12 monthly points the detector does not  *)
(* raise, every rolling mean and deviation is undefined, and the anomaly   *)
(* set is empty.                                                           *)
C5_ShortSeriesNoAnomalies ==
    (RanTo("anomaly") /\ raisedAt # "trend" /\ Len(Monthly(filtered)) < 12) =>
        /\ raisedAt # "anomaly"
        /\ monthly # Unbound /\ rolling # Unbound /\ deviation # Unbound
        /\ AllNaN(rolling[1])
        /\ AllNaN(deviation[1])
        /\ anomalies = Bound({})

C5_Witness == pc = "forecast" /\ Len(monthly[1]) = 11 /\ anomalies = Bound({})

(* C6: two consecutive runs with the same selection (continent, city,      *)
(* unit) on the same loaded dataset yield identical outputs.               *)
C6_Idempotent ==
    (Ended /\ prev # Unbound /\ prev[1].sel = Selection) => prev[1].out = Outputs

C6_Witness ==
    /\ pc = "done"
    /\ prev # Unbound
    /\ prev[1].sel = Selection
    /\ prev[1].out.pc = "done"
    /\ Len(filtered) = 2

(* C7: a day is a heatwave day iff its temperature is strictly above the   *)
(* 95th-percentile threshold, a coldwave day iff strictly below the 5th-   *)
(* percentile threshold; no day is both; when all temperatures are equal   *)
(* no day is flagged in either direction.                                  *)
C7_ExtremeClassifier ==
    heatwave_days # Unbound =>
        /\ heat_threshold = Bound(Percentile(Temperatures(filtered), 95))
        /\ cold_threshold = Bound(Percentile(Temperatures(filtered), 5))
        /\ \A i \in DOMAIN filtered :
              /\ i \in heatwave_days[1] <=> RGt(filtered[i].temperature, heat_threshold[1])
              /\ i \in coldwave_days[1] <=> RLt(filtered[i].temperature, cold_threshold[1])
        /\ heatwave_days[1] \cap coldwave_days[1] = {}
        /\ (\A i \in DOMAIN filtered : filtered[i].temperature = filtered[1].temperature)
              => (heatwave_days[1] = {} /\ coldwave_days[1] = {})

C7_Witness ==
    /\ pc = "done"
    /\ Len(filtered) >= 12
    /\ heatwave_days[1] # {}
    /\ heatwave_days[1] # DOMAIN filtered

(* C8: the rolling mean at 1-based index i is the mean of the 12 monthly   *)
(* values at i-11..i when i >= 12 and undefined below; the deviation is    *)
(* the value minus the rolling mean, defined exactly where the rolling     *)
(* mean is; a point is an anomaly iff its deviation is defined and its     *)
(* absolute value is strictly greater than the threshold.                  *)
C8_TrailingWindow ==
    anomalies # Unbound =>
        LET val == Temperatures(monthly[1])
            th  == threshold[1]
        IN  /\ DOMAIN rolling[1] = DOMAIN val
            /\ DOMAIN deviation[1] = DOMAIN val
            /\ \A i \in DOMAIN val :
                  /\ i < 12 => rolling[1][i] = NaN
                  /\ i >= 12 =>
                        /\ rolling[1][i] # NaN
                        /\ RMul(R(12), rolling[1][i]) = RSum(SubSeq(val, i - 11, i))
                  /\ deviation[1][i] = NaN <=> rolling[1][i] = NaN
                  /\ rolling[1][i] # NaN => RAdd(deviation[1][i], rolling[1][i]) = val[i]
                  /\ i \in anomalies[1] <=>
                        /\ deviation[1][i] # NaN
                        /\ th # NaN
                        /\ RGt(RMul(deviation[1][i], deviation[1][i]), th.sq)
            /\ anomalies[1] \subseteq DOMAIN val

C8_Witness ==
    /\ pc = "forecast"
    /\ Len(monthly[1]) = 13
    /\ anomalies[1] = {12, 13}
    /\ deviation[1][12] # deviation[1][13]

(* C9: for a non-empty date-sorted series the trend direction is           *)
(* "increasing" iff the last temperature is strictly greater than the      *)
(* first and "decreasing" otherwise; equal first and last temperatures     *)
(* (a one-record series included) read "decreasing".                       *)
C9_TrendDirection ==
    trend_direction # Unbound =>
        /\ Len(filtered) > 0
        /\ \A i, j \in DOMAIN filtered : i < j => ~DateLt(filtered[j].date, filtered[i].date)
        /\ trend_direction[1] \in {"increasing", "decreasing"}
        /\ trend_direction[1] = "increasing"
              <=> RGt(filtered[Len(filtered)].temperature, filtered[1].temperature)
        /\ filtered[Len(filtered)].temperature = filtered[1].temperature
              => trend_direction[1] = "decreasing"

C9_Witness ==
    /\ trend_direction = Bound("decreasing")
    /\ Len(filtered) = 2
    /\ filtered[1].temperature = filtered[2].temperature

(* the outputs of each section *)
Produced(st) ==
    CASE st = "kpi"        -> kpi # Unbound
      [] st = "trend"      -> trend_direction # Unbound
      [] st = "choropleth" -> country_avg # Unbound
      [] st = "animated"   -> year_avg # Unbound
      [] st = "anomaly"    -> anomalies # Unbound
      [] st = "forecast"   -> forecast # Unbound
      [] st = "extreme"    -> heatwave_days # Unbound /\ heat_threshold # Unbound

StageNames == {Stages[i] : i \in DOMAIN Stages}

(* C10: the sections run in the order KPI, trend, global choropleth,       *)
(* animated choropleth, anomaly detection, forecast, extreme events, and a *)
(* section's output exists only if every earlier section completed: when   *)
(* the forecast raises, no extreme-event output exists; when the trend     *)
(* step raises, no anomaly, forecast or extreme-event output exists.       *)
C10_StageOrder ==
    /\ \A s, t \in StageNames : (Produced(s) /\ StageNo(t) < StageNo(s)) => Produced(t)
    /\ pc \in StageNames => \A t \in StageNames : Produced(t) <=> StageNo(t) < StageNo(pc)
    /\ pc = "done" => \A t \in StageNames : Produced(t)
    /\ raisedAt = "forecast" =>
          /\ heat_threshold = Unbound /\ cold_threshold = Unbound
          /\ heatwave_days = Unbound /\ coldwave_days = Unbound
    /\ raisedAt = "trend" =>
          /\ anomalies = Unbound /\ forecast = Unbound
          /\ heatwave_days = Unbound /\ coldwave_days = Unbound

C10_Witness == raisedAt = "forecast" /\ pc = "crashed" /\ anomalies # Unbound

====
